---- MODULE Spec2Model ----
(***************************************************************************)
(* Assignment resolution and enrollment admission of the LMS backend.      *)
(*                                                                         *)
(* The store is the two Prisma tables the subsystem writes:                *)
(*   coursesAssigned  (courseId, collegeId, departmentId, capacity)        *)
(*   enrollment       (id, studentId, courseId, departmentId, status,      *)
(*                     startedAt)                                          *)
(* Users, registrations, courses and the status configuration are read     *)
(* only by the handlers modelled here.                                     *)
(*                                                                         *)
(* The repository holds two copies of the course router (first copy:       *)
(* part_000:563-1794, second copy: part_000:1796-2904); their              *)
(* POST /courses/:id/assign handlers differ and are modelled separately    *)
(* (AssignV1, AssignV2); their DELETE /courses/:id/unassign handlers are   *)
(* the same text and are modelled once (Unassign).                         *)
(***************************************************************************)
EXTENDS Integers, FiniteSets, Sequences, TLC

\* ---------------------------------------------------------------- bounds
MaxCap == 2
NumStudents == 3
NumProcs == 2
MaxStamp == 2

\* ------------------------------------------------------------- constants
\* JS null / undefined / "" of an id field.
Null == "null"
\* capacity: null (no limit).
NullCap == -1

Courses == {"c1"}
Colleges == {"o1", "o2"}
Depts == {"d1", "d2"}
DeptOrNull == Depts \cup {Null}
Caps == {NullCap} \cup (1..MaxCap)
\* request bodies enumerated for the assignment routes: every capacity for
\* the first college, capacity null for the others
CapsFor(collegeId) == IF collegeId = "o1" THEN Caps ELSE {NullCap}

\* ----------------------------------------------------------------- users
\* user rows: role is the raw value of the role column (lower case for
\* staff, as the signup routes write it).
Root == [id |-> "root", role |-> "superadmin", collegeId |-> Null, departmentId |-> Null]
Adm1 == [id |-> "adm1", role |-> "admin", collegeId |-> "o1", departmentId |-> Null]
Adm2 == [id |-> "adm2", role |-> "admin", collegeId |-> "o2", departmentId |-> Null]
Ins1 == [id |-> "ins1", role |-> "instructor", collegeId |-> "o1", departmentId |-> "d1"]
Ins2 == [id |-> "ins2", role |-> "instructor", collegeId |-> "o1", departmentId |-> "d2"]
Staff == {Root, Adm1, Adm2, Ins1, Ins2}
\* callers of the assignment routes
Callers == {Root, Adm1, Adm2, Ins1}

\* norm() of middleware/auth.js on the role labels in use: trim, upper case,
\* runs of non-alphanumerics to "_".
norm(s) ==
  CASE s = "superadmin" -> "SUPERADMIN"
    [] s = "admin" -> "ADMIN"
    [] s = "instructor" -> "INSTRUCTOR"
    [] s = "student" -> "STUDENT"
    [] s = "STUDENT" -> "STUDENT"
    [] OTHER -> s

\* protect(): req.user is the user row with role normalised.
protect(u) == [u EXCEPT !.role = norm(u.role)]

\* up() of the course router is toUpperCase(); on normalised roles it is
\* the identity, on raw labels it is norm.
isSuperAdmin(u) == norm(u.role) = "SUPERADMIN"
isCollegeAdmin(u) == norm(u.role) = "ADMIN"

\* the membership test answering yes for every college admin
assertAdminBelongsToCollege_AnyCollege(user, collegeId) == isCollegeAdmin(user)

assertAdminBelongsToCollege(user, collegeId) ==
  IF ~isCollegeAdmin(user) THEN FALSE ELSE user.collegeId = collegeId

\* -------------------------------------------------------- coursesAssigned
Row(courseId, collegeId, departmentId, capacity) ==
  [courseId |-> courseId, collegeId |-> collegeId,
   departmentId |-> departmentId, capacity |-> capacity]

\* rows matching a where-clause on the triple
RowsFor(rows, courseId, collegeId, departmentId) ==
  {r \in rows : r.courseId = courseId /\ r.collegeId = collegeId
                /\ r.departmentId = departmentId}

\* rows of (courseId, collegeId) with NOT { departmentId: null }
DeptRowsFor(rows, courseId, collegeId) ==
  {r \in rows : r.courseId = courseId /\ r.collegeId = collegeId
                /\ r.departmentId # Null}

\* prisma update({ where: { id }, data: { capacity } }) on the rows found
UpdateCapacity(rows, found, capacity) ==
  (rows \ found) \cup {[r EXCEPT !.capacity = capacity] : r \in found}

\* prisma upsert({ where: triple, create, update: { capacity } })
Upsert(rows, courseId, collegeId, departmentId, capacity) ==
  LET found == RowsFor(rows, courseId, collegeId, departmentId)
  IN IF found # {}
       THEN UpdateCapacity(rows, found, capacity)
       ELSE rows \cup {Row(courseId, collegeId, departmentId, capacity)}

Reply(code, rows) == [code |-> code, rows |-> rows]

\* POST /courses/:id/assign, first copy: college-admin branch.
AdminAssignV1(user, courseId, collegeId, departmentId, capacity, rows) ==
  IF ~assertAdminBelongsToCollege(user, collegeId) THEN Reply(403, rows)
  ELSE IF departmentId = Null THEN Reply(403, rows)
  ELSE IF RowsFor(rows, courseId, collegeId, departmentId) # {}
    THEN Reply(409, rows)
  ELSE Reply(201, rows \cup {Row(courseId, collegeId, departmentId, capacity)})

\* first copy: superadmin, department-scoped assign.
SuperDeptAssignV1(courseId, collegeId, departmentId, capacity, rows) ==
  IF RowsFor(rows, courseId, collegeId, Null) # {} THEN Reply(409, rows)
  ELSE LET existingDept == RowsFor(rows, courseId, collegeId, departmentId)
       IN IF existingDept # {}
            THEN Reply(200, UpdateCapacity(rows, existingDept, capacity))
            ELSE Reply(201, rows \cup {Row(courseId, collegeId, departmentId, capacity)})

\* the same branch with the department conflict looked up by course only
SuperCollegeAssignV1_AnyCollege(courseId, collegeId, capacity, rows) ==
  IF {r \in rows : r.courseId = courseId /\ r.departmentId # Null} # {}
    THEN Reply(409, rows)
  ELSE LET existingCollege == RowsFor(rows, courseId, collegeId, Null)
       IN IF existingCollege # {}
            THEN Reply(200, UpdateCapacity(rows, existingCollege, capacity))
            ELSE Reply(201, rows \cup {Row(courseId, collegeId, Null, capacity)})

\* first copy: superadmin, college-level assign.
SuperCollegeAssignV1(courseId, collegeId, capacity, rows) ==
  IF DeptRowsFor(rows, courseId, collegeId) # {} THEN Reply(409, rows)
  ELSE LET existingCollege == RowsFor(rows, courseId, collegeId, Null)
       IN IF existingCollege # {}
            THEN Reply(200, UpdateCapacity(rows, existingCollege, capacity))
            ELSE Reply(201, rows \cup {Row(courseId, collegeId, Null, capacity)})

\* POST /courses/:id/assign, first copy of the course router.
AssignV1(user, courseId, collegeId, departmentId, capacity, rows) ==
  IF isCollegeAdmin(user)
    THEN AdminAssignV1(user, courseId, collegeId, departmentId, capacity, rows)
  ELSE IF isSuperAdmin(user) THEN
    IF departmentId # Null
      THEN SuperDeptAssignV1(courseId, collegeId, departmentId, capacity, rows)
      ELSE SuperCollegeAssignV1(courseId, collegeId, capacity, rows)
  ELSE Reply(403, rows)

\* POST /courses/:id/assign, second copy of the course router.
AssignV2(user, courseId, collegeId, departmentId, capacity, rows) ==
  IF isCollegeAdmin(user) THEN
    IF ~assertAdminBelongsToCollege(user, collegeId) THEN Reply(403, rows)
    ELSE IF departmentId = Null THEN Reply(403, rows)
    ELSE IF RowsFor(rows, courseId, collegeId, departmentId) # {}
      THEN Reply(409, rows)
    ELSE Reply(200, Upsert(rows, courseId, collegeId, departmentId, capacity))
  ELSE IF isSuperAdmin(user) THEN
    IF departmentId = Null
      THEN Reply(200, Upsert(rows, courseId, collegeId, Null, capacity))
      ELSE Reply(200, Upsert(rows, courseId, collegeId, departmentId, capacity))
  ELSE Reply(403, rows)

\* the handler with the two college-level deletes outside a transaction
Unassign_NoRollback(user, courseId, collegeId, departmentId, rows) ==
  IF isCollegeAdmin(user) THEN
    IF ~assertAdminBelongsToCollege(user, collegeId) THEN Reply(403, rows)
    ELSE IF departmentId = Null THEN Reply(403, rows)
    ELSE LET found == RowsFor(rows, courseId, collegeId, departmentId)
         IN IF found = {} THEN Reply(404, rows) ELSE Reply(200, rows \ found)
  ELSE IF isSuperAdmin(user) THEN
    IF departmentId # Null THEN
      LET found == RowsFor(rows, courseId, collegeId, departmentId)
      IN IF found = {} THEN Reply(404, rows) ELSE Reply(200, rows \ found)
    ELSE
      LET found == RowsFor(rows, courseId, collegeId, Null)
          kept == rows \ DeptRowsFor(rows, courseId, collegeId)
      IN IF found = {} THEN Reply(404, kept) ELSE Reply(200, kept \ found)
  ELSE Reply(403, rows)

\* DELETE /courses/:id/unassign (both copies).  delete() of a missing row
\* throws P2025, answered 404; the superadmin college-level branch runs
\* deleteMany + delete in one $transaction, rolled back when delete throws.
Unassign(user, courseId, collegeId, departmentId, rows) ==
  IF isCollegeAdmin(user) THEN
    IF ~assertAdminBelongsToCollege(user, collegeId) THEN Reply(403, rows)
    ELSE IF departmentId = Null THEN Reply(403, rows)
    ELSE LET found == RowsFor(rows, courseId, collegeId, departmentId)
         IN IF found = {} THEN Reply(404, rows) ELSE Reply(200, rows \ found)
  ELSE IF isSuperAdmin(user) THEN
    IF departmentId # Null THEN
      LET found == RowsFor(rows, courseId, collegeId, departmentId)
      IN IF found = {} THEN Reply(404, rows) ELSE Reply(200, rows \ found)
    ELSE
      LET found == RowsFor(rows, courseId, collegeId, Null)
      IN IF found = {} THEN Reply(404, rows)
         ELSE Reply(200, (rows \ DeptRowsFor(rows, courseId, collegeId)) \ found)
  ELSE Reply(403, rows)

\* ------------------------------------------------------ enrollment router
\* The repository holds two copies of the enrollment router as well
\* ("r1": part_001:1069-2227, "r2": part_002:1-880).  Helpers that differ
\* between them take the copy as first argument.
Routers == {"r1", "r2"}

Students == 1..NumStudents

\* latest Registration row of a student (getStudentOrgContext) and the
\* departmentId column of the student's user row
RegCollege(s) == IF s % 4 = 0 THEN "o2" ELSE "o1"
RegDept(s) == IF s % 3 = 0 THEN "d2" ELSE "d1"
UserDept(s) == RegDept(s)
getStudentOrgContext(s) == [collegeId |-> RegCollege(s), departmentId |-> RegDept(s)]

\* Course.collegeId (direct link of a course to a college)
CourseCollege(c) == IF c = "c1" THEN Null ELSE "o1"

\* normStatus(): trim and upper case
normStatus(s) ==
  CASE s = "approved" -> "APPROVED"
    [] s = "Active" -> "ACTIVE"
    [] OTHER -> s

\* loadEnrollmentStatusConfig() with no setting row
DefaultConfig ==
  [allowed |-> <<"PENDING", "APPROVED", "REJECTED">>,
   approved_like |-> <<"APPROVED">>]

Range(seq) == {seq[i] : i \in 1..Len(seq)}
MapNormStatus(seq) == {normStatus(x) : x \in Range(seq)}

isAdmin(role) == norm(role) \in {"ADMIN", "SUPER_ADMIN"}
isInstructor(role) == norm(role) = "INSTRUCTOR"
isStudent(role) == norm(role) = "STUDENT"

\* "no row" answer of findFirst / findUnique on coursesAssigned
NoRow == Row(Null, Null, Null, NullCap)

\* findAssignmentForContext: the rows findFirst may return
findAssignmentForContext(rows, courseId, collegeId, departmentId) ==
  IF collegeId = Null THEN {NoRow}
  ELSE LET deptAssign == IF departmentId # Null
                           THEN RowsFor(rows, courseId, collegeId, departmentId)
                           ELSE {}
           collegeWide == RowsFor(rows, courseId, collegeId, Null)
       IN IF deptAssign # {} THEN deptAssign
          ELSE IF collegeWide # {} THEN collegeWide
          ELSE {NoRow}

\* findAssignmentForCollege: findFirst({ where: { courseId, collegeId } })
\* has no orderBy, any matching row may be the one returned; "r1" falls
\* back to a virtual row for a course linked directly to the college.
findAssignmentForCollege(router, rows, courseId, collegeId) ==
  IF collegeId = Null THEN {NoRow}
  ELSE LET found == {r \in rows : r.courseId = courseId /\ r.collegeId = collegeId}
       IN IF found # {} THEN found
          ELSE IF router = "r1" /\ CourseCollege(courseId) = collegeId
            THEN {Row(courseId, collegeId, Null, NullCap)}
          ELSE {NoRow}

countApprovedLikeAtDepartment(enrs, courseId, departmentId, approvedLikeStatuses) ==
  IF departmentId = Null THEN 0
  ELSE Cardinality({e \in enrs : /\ e.courseId = courseId
                                 /\ e.departmentId = departmentId
                                 /\ e.status \in approvedLikeStatuses})

\* the count without the status filter
countApprovedLikeAtCollege_AnyStatus(enrs, courseId, collegeId, approvedLikeStatuses) ==
  IF approvedLikeStatuses = {} THEN 0
  ELSE Cardinality({e \in enrs : /\ e.courseId = courseId
                                 /\ RegCollege(e.studentId) = collegeId})

countApprovedLikeAtCollege(enrs, courseId, collegeId, approvedLikeStatuses) ==
  IF approvedLikeStatuses = {} THEN 0
  ELSE Cardinality({e \in enrs : /\ e.courseId = courseId
                                 /\ e.status \in approvedLikeStatuses
                                 /\ RegCollege(e.studentId) = collegeId})

\* isInstructorEligibleForCourse of the two routers
isInstructorEligibleForCourse(router, user, courseId, rows) ==
  IF router = "r1"
    THEN \/ \E r \in rows : /\ r.courseId = courseId
                            /\ r.collegeId = user.collegeId
                            /\ r.departmentId \in {user.departmentId, Null}
         \/ CourseCollege(courseId) = user.collegeId
    ELSE \E r \in rows :
           /\ r.courseId = courseId
           /\ \/ (r.departmentId # Null /\ r.departmentId = user.departmentId)
              \/ (r.departmentId = Null /\ user.collegeId # Null
                  /\ r.collegeId = user.collegeId)

\* the middleware letting every instructor through
isEligibleInstructorForEnrollment_AnyInstructor(router, user, id, enrs, rows) ==
  isAdmin(user.role) \/ isInstructor(user.role)

\* isEligibleInstructorForEnrollment (the middleware of the single
\* transition): the role is read from the user row
isEligibleInstructorForEnrollment(router, user, id, enrs, rows) ==
  IF isAdmin(user.role) THEN TRUE
  ELSE IF ~isInstructor(user.role) THEN FALSE
  ELSE \E e \in enrs :
         e.id = id /\ isInstructorEligibleForCourse(router, user, e.courseId, rows)

\* the check letting every instructor moderate every course
ensureCanModerateCourse_AnyInstructor(router, user, courseId, rows) ==
  isAdmin(user.role) \/ isInstructor(user.role)

ensureCanModerateCourse(router, user, courseId, rows) ==
  IF isAdmin(user.role) THEN TRUE
  ELSE IF ~isInstructor(user.role) THEN FALSE
  ELSE isInstructorEligibleForCourse(router, user, courseId, rows)

\* ------------------------------------------------------------ enrollment
Enrollment(s, c, d, status, startedAt) ==
  [id |-> <<s, c>>, studentId |-> s, courseId |-> c, departmentId |-> d,
   status |-> status, startedAt |-> startedAt]

\* startedAt: 0 is null, n > 0 is the n-th date written to the row
NewDate(enrs, id) ==
  LET cur == {e.startedAt : e \in {x \in enrs : x.id = id}}
      top == IF cur = {} THEN 0 ELSE CHOOSE n \in cur : \A m \in cur : m <= n
  IN IF top < MaxStamp THEN top + 1 ELSE MaxStamp

\* prisma.enrollment.create under the unique (courseId, studentId) index
EnrollmentExists(enrs, s, c) == \E e \in enrs : e.studentId = s /\ e.courseId = c

\* pendingStatus of the request route
pendingStatus(cfg) ==
  IF "PENDING" \in Range(cfg.allowed) THEN "PENDING"
  ELSE LET idx == {i \in 1..Len(cfg.allowed) : cfg.allowed[i] \notin Range(cfg.approved_like)}
       IN IF idx # {} THEN cfg.allowed[CHOOSE i \in idx : \A j \in idx : i <= j]
          ELSE IF Len(cfg.allowed) > 0 THEN cfg.allowed[1]
          ELSE "PENDING"

EReply(code, err, enrs) == [code |-> code, err |-> err, enrs |-> enrs]

\* POST /courses/:courseId/enrollment-requests by student s.
RequestEnrollment(router, s, courseId, enrs, rows, cfg) ==
  LET org == getStudentOrgContext(s)
  IN
  IF EnrollmentExists(enrs, s, courseId) THEN {EReply(200, "existing", enrs)}
  ELSE IF org.collegeId = Null THEN {EReply(400, "noCollege", enrs)}
  ELSE IF router = "r1" /\ UserDept(s) = Null THEN {EReply(400, "noDepartment", enrs)}
  ELSE IF findAssignmentForCollege(router, rows, courseId, org.collegeId) = {NoRow}
    THEN {EReply(409, "notAssigned", enrs)}
  ELSE IF router = "r1"
    THEN IF RowsFor(rows, courseId, org.collegeId, UserDept(s)) = {}
           THEN {EReply(409, "notAssigned", enrs)}
           ELSE {EReply(201, "ok",
                   enrs \cup {Enrollment(s, courseId, UserDept(s), pendingStatus(cfg), 0)})}
    ELSE {EReply(201, "ok",
            enrs \cup {Enrollment(s, courseId, org.departmentId, pendingStatus(cfg), 0)})}

\* ----------------------------------------------------------------- state
VARIABLES
  assignments,   \* coursesAssigned rows
  enrollments,   \* enrollment rows
  config,        \* value of loadEnrollmentStatusConfig()
  proc,          \* requests in flight, one slot per concurrent request
  last           \* the request answered last and its answer

vars == <<assignments, enrollments, config, proc, last>>

Procs == 1..NumProcs
Idle == [pc |-> "idle"]
AllIdle == \A p \in Procs : proc[p].pc = "idle"

NoRequest == [op |-> "none"]

Configs == {DefaultConfig}

Init ==
  /\ assignments = {}
  /\ enrollments = {}
  /\ config \in Configs
  /\ proc = [p \in Procs |-> Idle]
  /\ last = NoRequest

\* history kept with the request: the request answered before it was a
\* successful removal of a department row of the same (courseId, collegeId)
\* that left the pair without department rows.
ClearedBy(lst, rows, c, o) ==
  /\ lst.op = "unassign"
  /\ lst.code = 200
  /\ lst.departmentId # Null
  /\ lst.courseId = c
  /\ lst.collegeId = o
  /\ ~\E r \in rows : r.courseId = c /\ r.collegeId = o /\ r.departmentId # Null

AssignRequest(op, u, c, o, d, cap, code) ==
  [op |-> op, user |-> u, courseId |-> c, collegeId |-> o,
   departmentId |-> d, capacity |-> cap, code |-> code,
   afterClear |-> ClearedBy(last, assignments, c, o)]

DoAssignV1In(users, colleges) ==
  \E u \in users, c \in Courses, o \in colleges, d \in DeptOrNull :
   \E cap \in CapsFor(o) :
    LET r == AssignV1(protect(u), c, o, d, cap, assignments)
    IN /\ assignments' = r.rows
       /\ last' = AssignRequest("assign", u, c, o, d, cap, r.code)
       /\ UNCHANGED <<enrollments, config, proc>>

DoAssignV1 == DoAssignV1In(Callers, Colleges)

DoAssignV2In(users, colleges) ==
  \E u \in users, c \in Courses, o \in colleges, d \in DeptOrNull :
   \E cap \in CapsFor(o) :
    LET r == AssignV2(protect(u), c, o, d, cap, assignments)
    IN /\ assignments' = r.rows
       /\ last' = AssignRequest("assign", u, c, o, d, cap, r.code)
       /\ UNCHANGED <<enrollments, config, proc>>

DoAssignV2 == DoAssignV2In(Callers, Colleges)

DoUnassignIn(users, colleges) ==
  \E u \in users, c \in Courses, o \in colleges, d \in DeptOrNull :
    LET r == Unassign(protect(u), c, o, d, assignments)
    IN /\ assignments' = r.rows
       /\ last' = AssignRequest("unassign", u, c, o, d, NullCap, r.code)
       /\ UNCHANGED <<enrollments, config, proc>>

DoUnassign == DoUnassignIn(Callers, Colleges)

NextAssign == DoAssignV1 \/ DoAssignV2 \/ DoUnassign

SpecAssign == Init /\ [][NextAssign]_vars

\* ------------------------------------------------------ admission routes
\* Assignment rows the admission specifications start from: every set of
\* rows of the first college with one row per triple (all of them can be
\* produced by the assignment routes).
KeySlots == {<<c, "o1", d>> : c \in {"c1"}, d \in DeptOrNull}
Worlds ==
  {{Row(k[1], k[2], k[3], f[k]) : k \in dom} :
     dom \in SUBSET KeySlots, f \in [KeySlots -> Caps]}

InitAdmit ==
  /\ assignments \in Worlds
  /\ enrollments = {}
  /\ config \in Configs
  /\ proc = [p \in Procs |-> Idle]
  /\ last = NoRequest

EnrollIds == Students \X Courses
\* values of req.body.nextStatus: two configured labels and one that is not
NextInputs == {"APPROVED", "REJECTED", "CANCELLED"}

Answer(op, u, ids, nextStatus, next, code, err, used, capacity) ==
  [op |-> op, user |-> u, ids |-> ids, nextStatus |-> nextStatus, next |-> next,
   code |-> code, err |-> err, used |-> used, capacity |-> capacity]

\* req.user of a request made by student s (the student is named by ids)
Requester(s) ==
  [id |-> "student", role |-> "STUDENT", collegeId |-> RegCollege(s),
   departmentId |-> UserDept(s)]

DoRequest(routers, students) ==
  \E router \in routers, s \in students, c \in Courses :
    \E r \in RequestEnrollment(router, s, c, enrollments, assignments, config) :
      /\ enrollments' = r.enrs
      /\ last' = Answer("request", Requester(s), {<<s, c>>}, Null, Null, r.code, r.err, NullCap, NullCap)
      /\ UNCHANGED <<assignments, config, proc>>

CapacityFull_Strict(used, capacity) == used > capacity

\* used >= assignment.capacity
CapacityFull(used, capacity) == used >= capacity

\* the composite-unique index on (courseId, studentId) of the enrollment
\* table: create throws "Unique constraint failed" when the pair has a row
UniqueConstraintFails(enrs, s, c) == \E e \in enrs : e.id = <<s, c>>

\* an answer of the direct grant, with the assignment the handler found
GReply(code, err, enrs, a) ==
  [code |-> code, err |-> err, enrs |-> enrs, assignment |-> a]

\* POST /enrollments (direct grant, the same text in both routers) for
\* student s; requireAdmin comes first.
DirectGrant(router, user, s, courseId, enrs, rows, cfg) ==
  LET org == getStudentOrgContext(s)
      approvedLike == Range(cfg.approved_like)
      approvedStatus == IF Len(cfg.approved_like) > 0
                          THEN cfg.approved_like[1] ELSE "APPROVED"
      used == countApprovedLikeAtCollege(enrs, courseId, org.collegeId, approvedLike)
      create(a) ==
        IF UniqueConstraintFails(enrs, s, courseId)
          THEN GReply(409, "conflict", enrs, a)
          ELSE GReply(201, "ok",
                 enrs \cup {Enrollment(s, courseId, org.departmentId, approvedStatus,
                                       NewDate(enrs, <<s, courseId>>))}, a)
  IN
  IF ~isAdmin(user.role) THEN {GReply(403, "forbidden", enrs, NoRow)}
  ELSE IF org.collegeId = Null THEN {GReply(400, "noCollege", enrs, NoRow)}
  ELSE IF findAssignmentForCollege(router, rows, courseId, org.collegeId) = {NoRow}
    THEN {GReply(409, "notAssigned", enrs, NoRow)}
  ELSE {IF /\ a.capacity # NullCap
           /\ approvedStatus \in approvedLike
           /\ CapacityFull(used, a.capacity)
          THEN GReply(409, "capacityFull", enrs, a)
          ELSE create(a) :
        a \in findAssignmentForCollege(router, rows, courseId, org.collegeId)}

\* data of prisma.enrollment.update in the single transition
TransitionUpdate(enrs, id, next, snapshot) ==
  {IF e.id = id
     THEN [e EXCEPT !.status = next,
                    !.startedAt = IF snapshot.startedAt # 0
                                    THEN snapshot.startedAt
                                    ELSE NewDate(enrs, id)]
     ELSE e : e \in enrs}

Finish(p, code, err, used, capacity) ==
  /\ last' = Answer("transition", proc[p].user, {proc[p].id},
                    proc[p].nextStatus, proc[p].next, code, err, used, capacity)
  /\ proc' = [proc EXCEPT ![p] = Idle]

\* PATCH /enrollment-requests/:id: the middleware
\* requireEligibleInstructorForEnrollment, the validation of nextStatus and
\* the load of the enrollment.
TransitionBegin(p, routers, users, ids, statuses) ==
  /\ proc[p].pc = "idle"
  /\ \E router \in routers, u \in users, id \in ids, nextStatus \in statuses :
       LET next == normStatus(nextStatus)
           found == {e \in enrollments : e.id = id}
           reject(code, err) ==
             /\ last' = Answer("transition", u, {id}, nextStatus, next, code, err, NullCap, NullCap)
             /\ UNCHANGED proc
       IN /\ IF ~isEligibleInstructorForEnrollment(router, u, id, enrollments, assignments)
               THEN reject(403, "forbidden")
             ELSE IF next \notin MapNormStatus(config.allowed)
               THEN reject(400, "invalidStatus")
             ELSE IF found = {} THEN reject(404, "notFound")
             ELSE /\ \E enr \in found :
                       proc' = [proc EXCEPT ![p] =
                         [pc |-> IF next \in MapNormStatus(config.approved_like)
                                   THEN "resolve" ELSE "write",
                          user |-> u, id |-> id, nextStatus |-> nextStatus,
                          next |-> next,
                          enr |-> enr, assignment |-> NoRow, used |-> NullCap]]
                  /\ last' = NoRequest
          /\ UNCHANGED <<assignments, enrollments, config>>

\* findAssignmentForContext for the student's college and the enrollment's
\* (else the student's) department
TransitionResolve(p) ==
  /\ proc[p].pc = "resolve"
  /\ LET enr == proc[p].enr
         studentOrg == getStudentOrgContext(enr.studentId)
         departmentId == IF enr.departmentId # Null THEN enr.departmentId
                         ELSE studentOrg.departmentId
     IN \E a \in findAssignmentForContext(assignments, enr.courseId,
                                             studentOrg.collegeId, departmentId) :
          IF a = NoRow THEN Finish(p, 899, "notAssigned", NullCap, NullCap)
          ELSE /\ proc' = [proc EXCEPT ![p].assignment = a,
                                        ![p].pc = IF a.capacity # NullCap
                                                    THEN "count" ELSE "write"]
               /\ UNCHANGED last
  /\ UNCHANGED <<assignments, enrollments, config>>

\* the count at the scope of the assignment found and the capacity test
TransitionCount(p) ==
  /\ proc[p].pc = "count"
  /\ LET a == proc[p].assignment
         statuses == MapNormStatus(config.approved_like)
         used == IF a.departmentId # Null
                   THEN countApprovedLikeAtDepartment(enrollments, proc[p].enr.courseId,
                                                      a.departmentId, statuses)
                   ELSE countApprovedLikeAtCollege(enrollments, proc[p].enr.courseId,
                                                   a.collegeId, statuses)
     IN IF CapacityFull(used, a.capacity)
          THEN Finish(p, 409, "capacityFull", used, a.capacity)
          ELSE /\ proc' = [proc EXCEPT ![p].used = used, ![p].pc = "write"]
               /\ UNCHANGED last
  /\ UNCHANGED <<assignments, enrollments, config>>

\* prisma.enrollment.update; a row deleted in the meantime makes it throw
TransitionWrite(p) ==
  /\ proc[p].pc = "write"
  /\ IF \E e \in enrollments : e.id = proc[p].id
       THEN /\ enrollments' = TransitionUpdate(enrollments, proc[p].id, proc[p].next, proc[p].enr)
            /\ Finish(p, 200, "ok", proc[p].used, proc[p].assignment.capacity)
       ELSE /\ UNCHANGED enrollments
            /\ Finish(p, 500, "error", NullCap, NullCap)
  /\ UNCHANGED <<assignments, config>>

\* PATCH /enrollment-requests:bulk (the same text in both routers, the
\* helpers differ).  Every findAssignmentForCollege call may return any
\* matching row, so the assignment kept for a bucket is any of them.
BulkTransition(router, user, ids, nextStatus, enrs, rows, cfg) ==
  LET enrsFound == {e \in enrs : e.id \in ids}
      approvedLike == Range(cfg.approved_like)
      keyOf(e) == <<e.courseId, RegCollege(e.studentId)>>
      keys == {keyOf(e) : e \in enrsFound}
      candidates(k) == findAssignmentForCollege(router, rows, k[1], k[2])
      bucket(k) == {e \in enrsFound : keyOf(e) = k}
      picks == {f \in [keys -> UNION {candidates(k) : k \in keys}] :
                  \A k \in keys : f[k] \in candidates(k)}
      exceeded(f) ==
        \E k \in keys :
          /\ f[k].capacity # NullCap
          /\ countApprovedLikeAtCollege(enrs, f[k].courseId, f[k].collegeId, approvedLike)
               + Cardinality(bucket(k)) > f[k].capacity
      approvedUpdate ==
        {IF e.id \in ids
           THEN [e EXCEPT !.status = nextStatus,
                          !.startedAt = IF e.startedAt # 0 THEN e.startedAt
                                        ELSE NewDate(enrs, e.id)]
           ELSE e : e \in enrs}
      plainUpdate ==
        {IF e.id \in ids THEN [e EXCEPT !.status = nextStatus] ELSE e : e \in enrs}
  IN
  IF ~isInstructor(user.role) THEN {EReply(403, "forbidden", enrs)}
  ELSE IF nextStatus \notin Range(cfg.allowed) THEN {EReply(400, "invalidStatus", enrs)}
  ELSE IF enrsFound = {} THEN {EReply(200, "none", enrs)}
  ELSE IF \E e \in enrsFound : ~ensureCanModerateCourse(router, user, e.courseId, rows)
    THEN {EReply(403, "forbidden", enrs)}
  ELSE IF nextStatus \in approvedLike THEN
    IF \E k \in keys : candidates(k) = {NoRow}
      THEN {EReply(409, "notAssigned", enrs)}
      ELSE {IF exceeded(f) THEN EReply(409, "capacityFull", enrs)
                           ELSE EReply(200, "ok", approvedUpdate) : f \in picks}
  ELSE {EReply(200, "ok", plainUpdate)}

DoBulk(routers, users, batches, statuses) ==
  \E router \in routers, u \in users, nextStatus \in statuses :
    \E ids \in batches :
      \E r \in BulkTransition(router, protect(u), ids, nextStatus,
                               enrollments, assignments, config) :
        /\ enrollments' = r.enrs
        /\ last' = Answer("bulk", u, ids, nextStatus, nextStatus, r.code, r.err, NullCap, NullCap)
        /\ UNCHANGED <<assignments, config, proc>>

\* the two resolvers called on their own
Resolved(fn, c, o, d, a) ==
  [op |-> "resolve", fn |-> fn, courseId |-> c,
   collegeId |-> o, departmentId |-> d, result |-> a]

DoResolveContext ==
  \E c \in Courses, o \in Colleges \cup {Null}, d \in DeptOrNull :
    \E a \in findAssignmentForContext(assignments, c, o, d) :
      /\ last' = Resolved("findAssignmentForContext", c, o, d, a)
      /\ UNCHANGED <<assignments, enrollments, config, proc>>

DoResolveCollege ==
  \E router \in Routers, c \in Courses, o \in Colleges \cup {Null} :
    \E a \in findAssignmentForCollege(router, assignments, c, o) :
      /\ last' = Resolved("findAssignmentForCollege", c, o, Null, a)
      /\ UNCHANGED <<assignments, enrollments, config, proc>>

\* requests answered one after the other, the course assigned to the
\* college as a whole or not at all
OrgWideWorlds == {w \in Worlds : \A r \in w : r.departmentId = Null}

InitSeq ==
  /\ InitAdmit
  /\ assignments \in OrgWideWorlds

SeqModerators == {Adm1, Ins1}

NextSeq ==
  \/ (AllIdle /\ DoRequest(Routers, Students))
  \/ TransitionBegin(1, Routers, SeqModerators, EnrollIds, NextInputs)
  \/ TransitionResolve(1)
  \/ TransitionCount(1)
  \/ TransitionWrite(1)

SpecSeq == InitSeq /\ [][NextSeq]_vars

\* the rows respect the exclusivity of college-level and department-level
\* assignment
ExclusiveRows(rows) ==
  \A r1 \in rows, r2 \in rows :
    (r1.courseId = r2.courseId /\ r1.collegeId = r2.collegeId /\ r1.departmentId = Null)
      => r2.departmentId = Null

InitExclusive ==
  /\ InitAdmit
  /\ ExclusiveRows(assignments)

\* bulk transitions
BulkCallers == {Adm1, Ins1}
\* values of req.body.ids
Batches == (SUBSET EnrollIds) \ {{}}

NextBulk ==
  \/ DoRequest(Routers, Students)
  \/ DoBulk(Routers, BulkCallers, Batches, NextInputs)

SpecBulk == InitExclusive /\ [][NextBulk]_vars

\* the resolvers called one after the other
NextResolve == DoResolveContext \/ DoResolveCollege

SpecResolve == InitExclusive /\ [][NextResolve]_vars

\* concurrent approvals by a college admin of the requests of two students

ConcModerators == {Adm1}
ConcStudents == {s \in Students : s <= NumProcs}

NextConc ==
  \/ DoRequest(Routers, ConcStudents)
  \/ \E p \in Procs :
       TransitionBegin(p, Routers, ConcModerators, ConcStudents \X Courses, {"APPROVED"})
  \/ \E p \in Procs : TransitionResolve(p)
  \/ \E p \in Procs : TransitionCount(p)
  \/ \E p \in Procs : TransitionWrite(p)

SpecConc == InitExclusive /\ [][NextConc]_vars

\* ------------------------------------------------------------ properties
KeyRows(rows, c, o, d) ==
  {r \in rows : r.courseId = c /\ r.collegeId = o /\ r.departmentId = d}
OrgWideRows(c, o) == KeyRows(assignments, c, o, Null)
DeptRows(c, o) ==
  {r \in assignments : r.courseId = c /\ r.collegeId = o /\ r.departmentId # Null}

\* C1: no (courseId, collegeId) pair ever holds both an organization-wide
\* row (departmentId null) and a department-scoped row.
C1_Exclusivity ==
  \A c \in Courses, o \in Colleges :
    ~(OrgWideRows(c, o) # {} /\ DeptRows(c, o) # {})

\* actors the assignment routes let create a department-scoped row of a
\* college: the platform admin and the admin of that college
MayAssignDept(u, collegeId) ==
  norm(u.role) = "SUPERADMIN" \/ (norm(u.role) = "ADMIN" /\ u.collegeId = collegeId)

Succeeded(lst) == lst.code \in {200, 201}

\* C5: a createOrUpdate with a departmentId by the admin of the college
\* or by the platform admin, made while the organization-wide row of the
\* pair exists, is answered 409 and changes no row.
C5_DeptBlockedByOrgWide ==
  [][(/\ last'.op = "assign"
      /\ last'.departmentId # Null
      /\ MayAssignDept(last'.user, last'.collegeId)
      /\ OrgWideRows(last'.courseId, last'.collegeId) # {})
     => (last'.code = 409 /\ assignments' = assignments)]_vars

\* C6: an organization-wide createOrUpdate by the platform admin, made
\* while a department-scoped row of the pair exists, is answered 409 and
\* changes no row.
C6_OrgWideBlockedByDept ==
  [][(/\ last'.op = "assign"
      /\ last'.departmentId = Null
      /\ norm(last'.user.role) = "SUPERADMIN"
      /\ DeptRows(last'.courseId, last'.collegeId) # {})
     => (last'.code = 409 /\ assignments' = assignments)]_vars

\* C8: an organization-wide createOrUpdate by the platform admin that
\* directly follows the removal of the last department row of the pair
\* succeeds, and the pair then has the organization-wide row with the
\* capacity given.
C8_OrgWideAfterClear ==
  (/\ last.op = "assign"
   /\ last.afterClear
   /\ last.departmentId = Null
   /\ norm(last.user.role) = "SUPERADMIN")
  => (/\ Succeeded(last)
      /\ OrgWideRows(last.courseId, last.collegeId)
           = {Row(last.courseId, last.collegeId, Null, last.capacity)})

C8_Witness ==
  /\ last.op = "assign"
  /\ last.afterClear
  /\ last.departmentId = Null
  /\ norm(last.user.role) = "SUPERADMIN"
  /\ last.code = 201
  /\ OrgWideRows(last.courseId, last.collegeId) # {}

\* no exclusivity conflict for a request on the triple, in the rows given
NoConflict(c, o, d) ==
  IF d = Null THEN DeptRows(c, o) = {} ELSE OrgWideRows(c, o) = {}

\* C10: a createOrUpdate on a triple that already has a row, with no
\* exclusivity conflict, by an actor allowed to write that triple, succeeds,
\* leaves exactly one row for the triple and that row has the capacity given.
C10_IdempotentUpsert ==
  [][(/\ last'.op = "assign"
      /\ (IF last'.departmentId = Null
             THEN norm(last'.user.role) = "SUPERADMIN"
             ELSE MayAssignDept(last'.user, last'.collegeId))
      /\ KeyRows(assignments, last'.courseId, last'.collegeId, last'.departmentId) # {}
      /\ NoConflict(last'.courseId, last'.collegeId, last'.departmentId))
     => (/\ Succeeded(last')
         /\ KeyRows(assignments', last'.courseId, last'.collegeId, last'.departmentId)
              = {Row(last'.courseId, last'.collegeId, last'.departmentId, last'.capacity)})]_vars

\* ---------------------------------------------- properties of admission
ApprovedLike == {config.approved_like[i] : i \in 1..Len(config.approved_like)}

\* approved-like enrollments at the scope of assignment row r
ScopeCount(enrs, r) ==
  Cardinality({e \in enrs :
                 /\ e.courseId = r.courseId
                 /\ e.status \in ApprovedLike
                 /\ IF r.departmentId # Null
                      THEN e.departmentId = r.departmentId
                      ELSE RegCollege(e.studentId) = r.collegeId})

\* the assignment in force for enrollment e: the row of its department, else
\* the college-wide row, else the course's own college, else none
EffectiveRows(e) ==
  LET o == RegCollege(e.studentId)
      d == IF e.departmentId # Null THEN e.departmentId ELSE RegDept(e.studentId)
      dept == IF d = Null THEN {} ELSE KeyRows(assignments, e.courseId, o, d)
      org == KeyRows(assignments, e.courseId, o, Null)
  IN IF dept # {} THEN dept
     ELSE IF org # {} THEN org
     ELSE IF CourseCollege(e.courseId) = o THEN {Row(e.courseId, o, Null, NullCap)}
     ELSE {}

\* C2: for every capacity-bounded assignment row the number of approved-like
\* enrollments at the row's scope never exceeds the capacity, however the
\* steps of concurrent single transitions interleave.
C2_CapacityNeverExceeded ==
  \A r \in assignments :
    r.capacity # NullCap => ScopeCount(enrollments, r) <= r.capacity

\* the enrollments of a batch that are not yet approved-like and whose
\* assignment in force is row r
GroupOf(ids, r) ==
  {e \in enrollments :
     e.id \in ids /\ e.status \notin ApprovedLike /\ r \in EffectiveRows(e)}

GroupExceeds(ids) ==
  \E r \in assignments :
    /\ r.capacity # NullCap
    /\ ScopeCount(enrollments, r) + Cardinality(GroupOf(ids, r)) > r.capacity

\* C3: a bulk transition to an approved-like status that gets as far as the
\* capacity test, with a (course, scope) group whose new admissions added
\* to the usage of its assignment exceed the capacity, is refused for
\* capacity and changes no enrollment.

C3_BulkAtomicCapacity ==
  [][(/\ last'.op = "bulk"
      /\ last'.next \in ApprovedLike
      /\ last'.err \in {"ok", "capacityFull"}
      /\ GroupExceeds(last'.ids))
     => (last'.err = "capacityFull" /\ enrollments' = enrollments)]_vars

\* C4: one request at a time, on a college-wide row with capacity k: the
\* count step lets the approval through exactly while fewer than k
\* enrollments of the college are approved-like, the write then raises the
\* usage by one without passing k, and with k approved-like the request is
\* refused with used = k and capacity = k and no enrollment changes.
C4_SequentialCapacity ==
  [][\A p \in Procs :
       LET a == proc[p].assignment
           used == ScopeCount(enrollments, a)
           before == {e \in enrollments : e.id = proc[p].id}
           after == {e \in enrollments' : e.id = proc[p].id}
       IN /\ (proc[p].pc = "count" /\ a.departmentId = Null /\ a.capacity # NullCap)
               => IF used < a.capacity
                    THEN proc'[p].pc = "write" /\ enrollments' = enrollments
                    ELSE /\ used = a.capacity
                         /\ proc'[p].pc = "idle"
                         /\ last'.op = "transition"
                         /\ last'.ids = {proc[p].id}
                         /\ last'.err = "capacityFull"
                         /\ last'.used = a.capacity
                         /\ last'.capacity = a.capacity
                         /\ enrollments' = enrollments
          /\ (/\ proc[p].pc = "write"
              /\ proc[p].next \in ApprovedLike
              /\ a.departmentId = Null
              /\ a.capacity # NullCap)
               => /\ last'.err = "ok"
                  /\ \A e \in after : e.status = proc[p].next
                  /\ ScopeCount(enrollments', a) <= a.capacity
                  /\ (\A e \in before : e.status \notin ApprovedLike)
                       => ScopeCount(enrollments', a) = used + 1]_vars

\* the (k+1)-th student is refused with k = MaxCap students approved
C4_Witness ==
  /\ last.op = "transition"
  /\ last.err = "capacityFull"
  /\ last.used = MaxCap
  /\ last.capacity = MaxCap
  /\ \E r \in assignments : r.departmentId = Null /\ r.capacity = MaxCap
  /\ \E e \in enrollments : e.id \in last.ids /\ e.status = "PENDING"
  /\ Cardinality({e \in enrollments : e.status = "APPROVED"}) = MaxCap

\* C7: a single or bulk transition to an approved-like status that gets as
\* far as resolving the assignment, for an enrollment whose (course,
\* student's college, department) has no assignment in force, is refused as
\* not assigned and changes no enrollment.
C7_NotAssigned ==
  [][(/\ last'.op \in {"transition", "bulk"}
      /\ last'.next \in ApprovedLike
      /\ last'.err \in {"ok", "capacityFull", "notAssigned"}
      /\ \E e \in enrollments : e.id \in last'.ids /\ EffectiveRows(e) = {})
     => (last'.err = "notAssigned" /\ enrollments' = enrollments)]_vars

\* C9: two consecutive calls of a resolver with the same arguments return
\* the same row (or both none), and a call changes neither the assignment
\* rows nor the enrollments.
C9_ResolveIdempotent ==
  [][(last'.op = "resolve")
     => /\ assignments' = assignments
        /\ enrollments' = enrollments
        /\ (/\ last.op = "resolve"
            /\ last.fn = last'.fn
            /\ last.courseId = last'.courseId
            /\ last.collegeId = last'.collegeId
            /\ last.departmentId = last'.departmentId)
             => last'.result = last.result]_vars

\* ---------------------------------------------------- status validation
\* loadEnrollmentStatusConfig() with a setting row whose labels are not all
\* upper case (the row is stored as written, v.allowed.map(String))
LowerConfig ==
  [allowed |-> <<"PENDING", "approved", "REJECTED">>,
   approved_like |-> <<"approved">>]

StatusConfigs == {DefaultConfig, LowerConfig}

\* values of req.body.nextStatus, a lower-case one among them
StatusInputs == {"APPROVED", "approved", "REJECTED", "CANCELLED"}

InitStatus ==
  /\ assignments \in OrgWideWorlds
  /\ enrollments = {}
  /\ config \in StatusConfigs
  /\ proc = [p \in Procs |-> Idle]
  /\ last = NoRequest

NextStatus ==
  \/ (AllIdle /\ DoRequest(Routers, Students))
  \/ (AllIdle /\ DoBulk(Routers, {Ins1}, Batches, StatusInputs))
  \/ TransitionBegin(1, Routers, {Adm1}, EnrollIds, StatusInputs)
  \/ TransitionResolve(1)
  \/ TransitionCount(1)
  \/ TransitionWrite(1)

SpecStatus == InitStatus /\ [][NextStatus]_vars

Allowed == {config.allowed[i] : i \in 1..Len(config.allowed)}

\* C11, reading "not in allowed" in favour of the handlers (a label that
\* matches no allowed label even after trimming and upper-casing): a single
\* or bulk transition that passes the eligibility gate with such a
\* nextStatus is refused as an invalid status and changes no enrollment,
\* and after a successful transition the status of every enrollment it
\* names is one of the allowed labels.
C11_StatusValidation ==
  [][(last'.op \in {"transition", "bulk"} /\ last'.err # "forbidden")
     => /\ (\A a \in Allowed : normStatus(a) # normStatus(last'.nextStatus))
             => (last'.err = "invalidStatus" /\ enrollments' = enrollments)
        /\ (last'.err = "ok")
             => \A e \in enrollments' : e.id \in last'.ids => e.status \in Allowed]_vars

\* ------------------------------------------------------ eligibility gate
\* single and bulk transitions by every kind of staff, for the enrollments
\* of one student of each department
GateUsers == {Root, Adm1, Ins1, Ins2}
GateStudents == {s \in Students : s % 2 = 1}
GateBatches == (SUBSET (GateStudents \X Courses)) \ {{}}

NextGate ==
  \/ (AllIdle /\ DoRequest(Routers, GateStudents))
  \/ (AllIdle /\ DoBulk(Routers, GateUsers, GateBatches, NextInputs))
  \/ TransitionBegin(1, Routers, GateUsers, GateStudents \X Courses, NextInputs)
  \/ TransitionResolve(1)
  \/ TransitionCount(1)
  \/ TransitionWrite(1)

SpecGate == InitExclusive /\ [][NextGate]_vars

\* C12: a single or bulk transition by a superadmin or a college admin is
\* never refused as forbidden, whatever the assignment rows.
C12_AdminsEligible ==
  [][(last'.op \in {"transition", "bulk"} /\ last'.user.role \in {"superadmin", "admin"})
     => last'.err # "forbidden"]_vars

\* ------------------------------------------------- college-admin scoping
\* C13: an assign or unassign issued by a college admin for a college
\* other than their own, or without a departmentId, is answered 403 and
\* leaves the coursesAssigned rows unchanged; a caller that is neither
\* college admin nor superadmin is answered 403 and changes no row.
C13_AdminScoping ==
  [][(last'.op \in {"assign", "unassign"}) =>
       /\ (/\ norm(last'.user.role) = "ADMIN"
           /\ (last'.collegeId # last'.user.collegeId \/ last'.departmentId = Null))
          => (last'.code = 403 /\ assignments' = assignments)
       /\ (norm(last'.user.role) \notin {"ADMIN", "SUPERADMIN"})
          => (last'.code = 403 /\ assignments' = assignments)]_vars

\* the admin of o2 was refused a department row of o1 while rows exist
C13_Witness ==
  /\ last.op \in {"assign", "unassign"}
  /\ norm(last.user.role) = "ADMIN"
  /\ last.collegeId # last.user.collegeId
  /\ last.departmentId # Null
  /\ last.code = 403
  /\ assignments # {}

\* C14: an unassign that passes the scoping checks and names a row that
\* does not exist is answered 404 and leaves the coursesAssigned rows
\* unchanged; so a superadmin college-level unassign of a pair that has
\* department rows but no college-level row deletes no department row.
C14_RemoveMissing ==
  [][(/\ last'.op = "unassign"
      /\ MayAssignDept(last'.user, last'.collegeId)
      /\ (norm(last'.user.role) = "ADMIN" => last'.departmentId # Null)
      /\ RowsFor(assignments, last'.courseId, last'.collegeId,
                 last'.departmentId) = {})
     => (last'.code = 404 /\ assignments' = assignments)]_vars

\* the superadmin's college-level unassign was answered 404 while the
\* pair has department rows
C14_Witness ==
  /\ last.op = "unassign"
  /\ norm(last.user.role) = "SUPERADMIN"
  /\ last.departmentId = Null
  /\ last.code = 404
  /\ DeptRowsFor(assignments, last.courseId, last.collegeId) # {}

\* ------------------------------------------------- requests and grants
GrantAnswer(u, s, c, r) ==
  [op |-> "grant", user |-> u, ids |-> {<<s, c>>}, nextStatus |-> Null,
   next |-> Null, code |-> r.code, err |-> r.err, used |-> NullCap,
   capacity |-> NullCap, assignment |-> r.assignment]

DoGrant(routers, users, students, courses) ==
  \E router \in routers, u \in users, s \in students, c \in courses :
    \E r \in DirectGrant(router, protect(u), s, c, enrollments, assignments, config) :
      /\ enrollments' = r.enrs
      /\ last' = GrantAnswer(u, s, c, r)
      /\ UNCHANGED <<assignments, config, proc>>

Granters == {Adm1, Ins1}

NextEnroll ==
  \/ DoRequest(Routers, Students)
  \/ DoGrant(Routers, Granters, Students, Courses)

SpecEnroll == InitExclusive /\ [][NextEnroll]_vars

\* C15: every (courseId, studentId) pair has at most one enrollment row,
\* and a request or a direct grant by an administrator for a pair that
\* has a row already is answered with a conflict and leaves the
\* enrollment rows as they were.
C15_OnePerPair ==
  [][/\ \A e1, e2 \in enrollments' : e1.id = e2.id => e1 = e2
     /\ (/\ last'.op \in {"request", "grant"}
         /\ (last'.op = "grant" => isAdmin(norm(last'.user.role)))
         /\ \E e \in enrollments : e.id \in last'.ids)
        => (last'.code = 409 /\ enrollments' = enrollments)]_vars

\* --------------------------------------------------- resolver precedence
PrecedenceModerators == {Adm1}

NextPrecedence ==
  \/ (AllIdle /\ DoRequest(Routers, GateStudents))
  \/ (AllIdle /\ DoGrant(Routers, PrecedenceModerators, Students, Courses))
  \/ TransitionBegin(1, Routers, PrecedenceModerators, GateStudents \X Courses, {"APPROVED"})
  \/ TransitionResolve(1)
  \/ TransitionCount(1)
  \/ TransitionWrite(1)

SpecPrecedence == InitExclusive /\ [][NextPrecedence]_vars

\* the row the precedence rule names for (courseId, collegeId, departmentId)
PrecedenceRows(c, o, d) ==
  IF d # Null /\ KeyRows(assignments, c, o, d) # {}
    THEN KeyRows(assignments, c, o, d)
    ELSE KeyRows(assignments, c, o, Null)

\* C16: the assignment row an admission decision works with (the single
\* transition after its resolve step, the direct grant) is the row of the
\* student's department when that row exists and the college-wide row
\* otherwise; it is never the row of another department.
C16_ResolverPrecedence ==
  /\ \A p \in Procs :
       (proc[p].pc \in {"count", "write"} /\ proc[p].assignment # NoRow)
       => LET enr == proc[p].enr
              d == IF enr.departmentId # Null THEN enr.departmentId
                   ELSE RegDept(enr.studentId)
          IN proc[p].assignment
               \in PrecedenceRows(enr.courseId, RegCollege(enr.studentId), d)
  /\ (last.op = "grant" /\ last.assignment # NoRow)
     => \A id \in last.ids :
          last.assignment \in PrecedenceRows(id[2], RegCollege(id[1]), RegDept(id[1]))

\* ---------------------------------------------------- virtual assignment
\* a course whose own collegeId is o1 (CourseCollege) and that has no
\* coursesAssigned row
DirectCourses == {"c2"}

NextVirtual ==
  \/ (AllIdle /\ DoGrant(Routers, PrecedenceModerators, Students, DirectCourses))
  \/ TransitionBegin(1, Routers, PrecedenceModerators, Students \X DirectCourses,
                     {"APPROVED", "REJECTED"})
  \/ TransitionResolve(1)
  \/ TransitionCount(1)
  \/ TransitionWrite(1)

\* no row for the course, or one row of it for the college o1
DirectWorlds ==
  {{}} \cup {{Row(c, "o1", d, cap)} : c \in DirectCourses, d \in DeptOrNull,
                                      cap \in CapsFor("o1")}

InitVirtual ==
  /\ assignments \in DirectWorlds
  /\ enrollments = {}
  /\ config \in Configs
  /\ proc = [p \in Procs |-> Idle]
  /\ last = NoRequest

SpecVirtual == InitVirtual /\ [][NextVirtual]_vars

\* C17: a single transition to an approved-like status that gets as far as
\* resolving the assignment, for a student of college o and a course that
\* has no coursesAssigned row for o but whose own collegeId is o, succeeds
\* on the unlimited virtual assignment.
C17_VirtualAssignment ==
  [][(/\ last'.op = "transition"
      /\ last'.next \in ApprovedLike
      /\ last'.err \in {"ok", "capacityFull", "notAssigned"}
      /\ \A id \in last'.ids :
           /\ CourseCollege(id[2]) = RegCollege(id[1])
           /\ ~\E r \in assignments :
                 r.courseId = id[2] /\ r.collegeId = RegCollege(id[1]))
     => last'.err = "ok"]_vars

\* ------------------------------------------------------------- startedAt
\* C18: startedAt of an enrollment is written by its first transition to
\* an approved-like status and by nothing else: a step that sets it leaves
\* the enrollment approved-like, a step that makes the enrollment
\* approved-like leaves it set, and once set it keeps its value.
C18_StartedAtFirstApproval ==
  [][\A e \in enrollments : \A f \in enrollments' :
       (f.id = e.id) =>
         /\ (e.startedAt = 0 /\ f.startedAt # 0) => f.status \in ApprovedLike
         /\ (f.status \in ApprovedLike) => f.startedAt # 0
         /\ (e.startedAt # 0) => f.startedAt = e.startedAt]_vars

\* ------------------------------------------------ instructor eligibility
EligibilityCallers == {Ins1, Ins2, Requester(1)}
EligibilityIds == GateStudents \X (Courses \cup DirectCourses)
EligibilityBatches == {{id} : id \in EligibilityIds}

NextEligibility ==
  \/ (AllIdle /\ DoRequest(Routers, GateStudents))
  \/ (AllIdle /\ DoGrant(Routers, PrecedenceModerators, GateStudents, DirectCourses))
  \/ (AllIdle /\ DoBulk(Routers, EligibilityCallers, EligibilityBatches, {"REJECTED"}))
  \/ TransitionBegin(1, Routers, EligibilityCallers, EligibilityIds, {"APPROVED"})
  \/ TransitionResolve(1)
  \/ TransitionCount(1)
  \/ TransitionWrite(1)

SpecEligibility == InitExclusive /\ [][NextEligibility]_vars

\* a department row of the course for the instructor's department in the
\* instructor's college, the college-wide row of the instructor's college,
\* or the course's own collegeId being the instructor's college
CourseMatches(u, c) ==
  \/ \E r \in assignments :
       /\ r.courseId = c
       /\ r.collegeId = u.collegeId
       /\ r.departmentId \in {u.departmentId, Null}
  \/ CourseCollege(c) = u.collegeId

\* the same with the department row taken from any college
CourseMatchesAnyCollege(u, c) ==
  \/ CourseMatches(u, c)
  \/ \E r \in assignments :
       r.courseId = c /\ r.departmentId # Null /\ r.departmentId = u.departmentId

\* courses of the enrollments a request names
CoursesNamed(ids) == {e.courseId : e \in {x \in enrollments : x.id \in ids}}

\* C19: a single or bulk transition by an instructor on existing
\* enrollments passes the eligibility checks exactly when every course
\* named has a department row for the instructor's department, or a
\* college-wide row for the instructor's college, or is linked directly to
\* the instructor's college; a caller that is neither administrator nor
\* instructor never passes them.
C19_InstructorEligibility ==
  [][(/\ last'.op \in {"transition", "bulk"}
      /\ last'.err # "invalidStatus"
      /\ CoursesNamed(last'.ids) # {})
     => /\ (norm(last'.user.role) \notin {"ADMIN", "SUPERADMIN", "INSTRUCTOR"})
           => last'.err = "forbidden"
        /\ (norm(last'.user.role) = "INSTRUCTOR") =>
             /\ (\A c \in CoursesNamed(last'.ids) : CourseMatches(last'.user, c))
                => last'.err # "forbidden"
             /\ (last'.err # "forbidden")
                => \A c \in CoursesNamed(last'.ids) :
                     CourseMatchesAnyCollege(last'.user, c)]_vars

\* ------------------------------------------------------- eligibility gate
\* C20: a single transition asked by a caller who is no administrator and
\* who is not an instructor with a matching row or college for the
\* course of the enrollment is answered 403, whatever nextStatus is, and
\* changes no enrollment.
C20_EligibilityGate ==
  [][(/\ last'.op = "transition"
      /\ norm(last'.user.role) \notin {"ADMIN", "SUPERADMIN"}
      /\ CoursesNamed(last'.ids) # {}
      /\ \/ norm(last'.user.role) # "INSTRUCTOR"
         \/ \E c \in CoursesNamed(last'.ids) : ~CourseMatchesAnyCollege(last'.user, c))
     => (last'.err = "forbidden" /\ enrollments' = enrollments)]_vars

\* an instructor without a matching row was refused a status that is not
\* configured, on a pending enrollment
C20_Witness ==
  /\ last.op = "transition"
  /\ norm(last.user.role) = "INSTRUCTOR"
  /\ last.nextStatus = "CANCELLED"
  /\ last.err = "forbidden"
  /\ \E e \in enrollments :
       /\ e.id \in last.ids
       /\ e.status = "PENDING"
       /\ ~CourseMatchesAnyCollege(last.user, e.courseId)

\* ------------------------------------------------- bulk capacity by scope
\* C21: a bulk transition to an approved-like status that succeeds from a
\* state where no capacity-bounded row is over its capacity leaves no
\* department row and no college-wide row with more approved-like
\* enrollments at its scope than its capacity.
C21_BulkScopeCapacity ==
  [][(/\ last'.op = "bulk"
      /\ last'.err = "ok"
      /\ last'.next \in ApprovedLike
      /\ enrollments' # enrollments
      /\ C2_CapacityNeverExceeded)
     => C2_CapacityNeverExceeded']_vars

\* ------------------------------------------------------ bulk eligibility
\* batches over the assigned course and the directly linked course
MixedBatches == (SUBSET EligibilityIds) \ {{}}
BatchCallers == {Ins1, Ins2}

NextBatch ==
  \/ DoRequest(Routers, GateStudents)
  \/ DoGrant(Routers, PrecedenceModerators, GateStudents, DirectCourses)
  \/ DoBulk(Routers, BatchCallers, MixedBatches, {"APPROVED", "REJECTED"})

\* rows without capacity: the eligibility checks do not read it
InitBatch ==
  /\ InitExclusive
  /\ \A r \in assignments : r.capacity = NullCap

SpecBatch == InitBatch /\ [][NextBatch]_vars

\* C22: a bulk transition with a configured status, asked by a caller who
\* is no administrator and who is not an instructor with a matching row or
\* college for the course of at least one enrollment of the batch, is
\* answered 403 and changes no enrollment, those of the courses the caller
\* may moderate included.
C22_BulkAllOrNothing ==
  [][(/\ last'.op = "bulk"
      /\ last'.err # "invalidStatus"
      /\ norm(last'.user.role) \notin {"ADMIN", "SUPERADMIN"}
      /\ \/ norm(last'.user.role) # "INSTRUCTOR" /\ CoursesNamed(last'.ids) # {}
         \/ \E c \in CoursesNamed(last'.ids) : ~CourseMatchesAnyCollege(last'.user, c))
     => (last'.err = "forbidden" /\ enrollments' = enrollments)]_vars

\* an instructor was refused a batch naming a pending enrollment of a
\* course they may moderate and one of a course they may not
C22_Witness ==
  /\ last.op = "bulk"
  /\ last.err = "forbidden"
  /\ norm(last.user.role) = "INSTRUCTOR"
  /\ \E e, f \in enrollments :
       /\ e.id \in last.ids /\ f.id \in last.ids
       /\ CourseMatches(last.user, e.courseId)
       /\ ~CourseMatchesAnyCollege(last.user, f.courseId)

\* ------------------------------------------------------- bulk, step by step
\* The bulk route awaits its reads (findMany, the eligibility loop, the
\* buckets and the counts) and then issues one $transaction of updates
\* built from the rows read: other requests can run between the two.
BulkCheck(p, routers, users, batches, statuses) ==
  /\ proc[p].pc = "idle"
  /\ \E router \in routers, u \in users, nextStatus \in statuses :
      \E ids \in batches :
       \E r \in BulkTransition(router, protect(u), ids, nextStatus,
                                enrollments, assignments, config) :
         IF r.err = "ok"
           THEN /\ proc' = [proc EXCEPT ![p] =
                     [pc |-> "bulkwrite", user |-> u, ids |-> ids,
                      nextStatus |-> nextStatus,
                      enrs |-> {e \in enrollments : e.id \in ids}]]
                /\ last' = NoRequest
           ELSE /\ last' = Answer("bulk", u, ids, nextStatus, nextStatus,
                                  r.code, r.err, NullCap, NullCap)
                /\ UNCHANGED proc
  /\ UNCHANGED <<assignments, enrollments, config>>

\* data of the updates of the $transaction, from the rows read before
BulkUpdate(enrs, snapshot, nextStatus, cfg) ==
  {IF \E x \in snapshot : x.id = e.id
     THEN LET x == CHOOSE y \in snapshot : y.id = e.id
          IN IF nextStatus \in Range(cfg.approved_like)
               THEN [e EXCEPT !.status = nextStatus,
                              !.startedAt = IF x.startedAt # 0 THEN x.startedAt
                                            ELSE NewDate(enrs, e.id)]
               ELSE [e EXCEPT !.status = nextStatus]
     ELSE e : e \in enrs}

BulkWrite(p) ==
  /\ proc[p].pc = "bulkwrite"
  /\ enrollments' = BulkUpdate(enrollments, proc[p].enrs, proc[p].nextStatus, config)
  /\ last' = Answer("bulk", proc[p].user, proc[p].ids, proc[p].nextStatus,
                    proc[p].nextStatus, 200, "ok", NullCap, NullCap)
  /\ proc' = [proc EXCEPT ![p] = Idle]
  /\ UNCHANGED <<assignments, config>>

IsolationBatches == (SUBSET (ConcStudents \X Courses)) \ {{}}
IsolationInstructors == {Ins1}

\* concurrent bulk transitions on every slot, single transitions on slot 1
NextIsolation ==
  \/ (AllIdle /\ DoRequest(Routers, ConcStudents))
  \/ \E p \in Procs :
       BulkCheck(p, Routers, IsolationInstructors, IsolationBatches, {"APPROVED"})
  \/ \E p \in Procs : BulkWrite(p)
  \/ TransitionBegin(1, Routers, ConcModerators, ConcStudents \X Courses, {"APPROVED"})
  \/ TransitionResolve(1)
  \/ TransitionCount(1)
  \/ TransitionWrite(1)

SpecIsolation == InitSeq /\ [][NextIsolation]_vars

\* C23: with bulk transitions running concurrently with each other and
\* with a single transition on college-wide rows, no write of enrollments
\* leaves a capacity-bounded row with more approved-like enrollments at
\* its scope than its capacity.
C23_BulkIsolation ==
  [][(enrollments' # enrollments)
     => \A r \in assignments' :
          r.capacity # NullCap => ScopeCount(enrollments', r) <= r.capacity]_vars

\* ------------------------------------------------- statuses written
\* setting rows of enrollment.statusConfig: without PENDING, with every
\* allowed status approved-like, and with no approved-like status
NoPendingConfig ==
  [allowed |-> <<"APPROVED", "REJECTED">>, approved_like |-> <<"APPROVED">>]
AllApprovedConfig ==
  [allowed |-> <<"APPROVED">>, approved_like |-> <<"APPROVED">>]
NoApprovedConfig ==
  [allowed |-> <<"PENDING", "REJECTED">>, approved_like |-> <<>>]
WriteConfigs ==
  {DefaultConfig, LowerConfig, NoPendingConfig, AllApprovedConfig, NoApprovedConfig}

InitWrites ==
  /\ assignments \in OrgWideWorlds
  /\ enrollments = {}
  /\ config \in WriteConfigs
  /\ proc = [p \in Procs |-> Idle]
  /\ last = NoRequest

\* the four routes that write enrollment.status
NextWrites ==
  \/ (AllIdle /\ DoRequest(Routers, GateStudents))
  \/ (AllIdle /\ DoGrant(Routers, PrecedenceModerators, GateStudents, Courses))
  \/ (AllIdle /\ DoBulk(Routers, IsolationInstructors, GateBatches, {"APPROVED", "REJECTED"}))
  \/ TransitionBegin(1, Routers, PrecedenceModerators, GateStudents \X Courses,
                     {"APPROVED", "REJECTED"})
  \/ TransitionResolve(1)
  \/ TransitionCount(1)
  \/ TransitionWrite(1)

SpecWrites == InitWrites /\ [][NextWrites]_vars

\* C24: under a fixed status configuration the status of every enrollment
\* is one of the allowed statuses, whichever route wrote it.
C24_StatusAllowed ==
  \A e \in enrollments : e.status \in Allowed

\* C27: the enrollment a student's request creates is not in an
\* approved-like status, whatever the status configuration.
C27_RequestNeverApproved ==
  [][(last'.op = "request" /\ last'.code = 201)
     => \A e \in enrollments' \ enrollments : e.status \notin ApprovedLike]_vars

\* ------------------------------------- assignment changes during a decision
MutateStudents == {s \in Students : s = 1}
MutateAdmins == {Root}
MutateColleges == {"o1"}

\* a single transition of the first student's request, with the superadmin
\* assigning and unassigning the course at the student's college meanwhile
NextMutate ==
  \/ (AllIdle /\ DoRequest(Routers, MutateStudents))
  \/ DoAssignV1In(MutateAdmins, MutateColleges)
  \/ DoUnassignIn(MutateAdmins, MutateColleges)
  \/ TransitionBegin(1, Routers, PrecedenceModerators, MutateStudents \X Courses,
                     {"APPROVED"})
  \/ TransitionResolve(1)
  \/ TransitionCount(1)
  \/ TransitionWrite(1)

SpecMutate == InitExclusive /\ [][NextMutate]_vars

\* C25: when a single transition writes an approved-like status, the
\* assignment row it resolved (and counted against) is still a row of
\* coursesAssigned, with the capacity it had.
C25_AssignmentStable ==
  [][\A p \in Procs :
       (/\ proc[p].pc = "write"
        /\ proc[p].next \in MapNormStatus(config.approved_like)
        /\ enrollments' # enrollments)
       => proc[p].assignment \in assignments]_vars

\* ---------------------------------------------------- grants and capacity
\* C26: a direct grant that succeeds from a state where no capacity-bounded
\* row is over its capacity leaves every department row and every
\* college-wide row with at most its capacity of approved-like
\* enrollments at its scope.
C26_GrantWithinCapacity ==
  [][(/\ last'.op = "grant"
      /\ last'.code = 201
      /\ \A r \in assignments :
           r.capacity # NullCap => ScopeCount(enrollments, r) <= r.capacity)
     => \A r \in assignments' :
          r.capacity # NullCap => ScopeCount(enrollments', r) <= r.capacity]_vars

\* ------------------------------------------- department of an enrollment
\* enrollment.departmentId is nullable (the creating routes store
\* org.departmentId ?? null): rows created while the student's latest
\* registration had no department keep null after a registration with a
\* department is added.
NullDeptRequests == {Enrollment(s, c, Null, "PENDING", 0) : s \in Students, c \in Courses}

DeptWorlds == {w \in Worlds : w # {} /\ \A r \in w : r.departmentId # Null}

InitDept ==
  /\ assignments \in DeptWorlds
  /\ enrollments \in SUBSET NullDeptRequests
  /\ config \in Configs
  /\ proc = [p \in Procs |-> Idle]
  /\ last = NoRequest

\* requests and single transitions, one request at a time
NextDept ==
  \/ (AllIdle /\ DoRequest(Routers, Students))
  \/ TransitionBegin(1, Routers, PrecedenceModerators, EnrollIds, {"APPROVED"})
  \/ TransitionResolve(1)
  \/ TransitionCount(1)
  \/ TransitionWrite(1)

SpecDept == InitDept /\ [][NextDept]_vars

\* C28: when a single transition that resolved a department row A writes
\* an approved-like status, the enrollment written is one of the rows
\* countApprovedLikeAtDepartment(course, A.departmentId) counts.
C28_CountedAtDepartment ==
  [][\A p \in Procs :
       (/\ proc[p].pc = "write"
        /\ proc[p].next \in MapNormStatus(config.approved_like)
        /\ proc[p].assignment.departmentId # Null
        /\ enrollments' # enrollments)
       => \E e \in enrollments' :
            /\ e.id = proc[p].id
            /\ e.courseId = proc[p].assignment.courseId
            /\ e.departmentId = proc[p].assignment.departmentId
            /\ e.status \in MapNormStatus(config.approved_like)]_vars

\* ------------------------------------------------------ release of capacity
\* DELETE /enrollments/:id (both routers): requireAdmin, then delete, which
\* throws for a missing row (answered 500).
DeleteEnrollment(user, id, enrs) ==
  IF ~isAdmin(user.role) THEN EReply(403, "forbidden", enrs)
  ELSE IF ~\E e \in enrs : e.id = id THEN EReply(500, "error", enrs)
  ELSE EReply(200, "ok", {e \in enrs : e.id # id})

\* the answer of a delete, kept with the rows it removed
DeleteAnswer(u, id, r, removed) ==
  [op |-> "delete", user |-> u, ids |-> {id}, nextStatus |-> Null,
   next |-> Null, code |-> r.code, err |-> r.err, used |-> NullCap,
   capacity |-> NullCap, removed |-> removed]

DoDelete(users, ids) ==
  \E u \in users, id \in ids :
    LET r == DeleteEnrollment(protect(u), id, enrollments)
    IN /\ enrollments' = r.enrs
       /\ last' = DeleteAnswer(u, id, r, enrollments \ r.enrs)
       /\ UNCHANGED <<assignments, config, proc>>

\* requests, single transitions one at a time, and deletes at any moment
NextRelease ==
  \/ (AllIdle /\ DoRequest(Routers, Students))
  \/ DoDelete(PrecedenceModerators, EnrollIds)
  \/ TransitionBegin(1, Routers, PrecedenceModerators, EnrollIds, {"APPROVED", "REJECTED"})
  \/ TransitionResolve(1)
  \/ TransitionCount(1)
  \/ TransitionWrite(1)

SpecRelease == InitExclusive /\ [][NextRelease]_vars

NextResize ==
  \/ (AllIdle /\ DoRequest(Routers, ConcStudents))
  \/ (AllIdle /\ DoAssignV1In(MutateAdmins, MutateColleges))
  \/ (AllIdle /\ DoAssignV2In(MutateAdmins, MutateColleges))
  \/ TransitionBegin(1, Routers, PrecedenceModerators, ConcStudents \X Courses,
                     {"APPROVED"})
  \/ TransitionResolve(1)
  \/ TransitionCount(1)
  \/ TransitionWrite(1)

SpecResize == InitExclusive /\ [][NextResize]_vars

\* C30: an assign request that succeeds on a row that exists already, made
\* while no capacity-bounded row is over its capacity, leaves the row with
\* at most its new capacity of approved-like enrollments at its scope.
C30_CapacityUpdateBounded ==
  [][(/\ last'.op = "assign"
      /\ Succeeded(last')
      /\ KeyRows(assignments, last'.courseId, last'.collegeId, last'.departmentId) # {}
      /\ \A r \in assignments :
           r.capacity # NullCap => ScopeCount(enrollments, r) <= r.capacity)
     => \A r \in KeyRows(assignments', last'.courseId, last'.collegeId,
                          last'.departmentId) :
          r.capacity # NullCap => ScopeCount(enrollments', r) <= r.capacity]_vars
====
